---- MODULE Spec2Model ----
(***************************************************************************)
(* 2-D Perlin noise (kevinddchen/perlin): the grid-point hashes, the       *)
(* gradient generator, the scalar evaluator perlin(), the vectorised       *)
(* evaluator perlin_cell() and the multi-octave renderer render().         *)
(*                                                                         *)
(* Numbers.  A uint32 is a pair <<hi, lo>> of 16-bit limbs, so that every  *)
(* 32-bit sum, shift and product is computed with its truncation.  A real  *)
(* is an exact element <<a, b, d>> = (a + b*sqrt(2)) / d of Q(sqrt 2), in  *)
(* lowest terms with d > 0: the arithmetic of the evaluators is exact.     *)
(***************************************************************************)
EXTENDS Integers, Sequences, FiniteSets, TLC

(* ------------------------------ bounds --------------------------------- *)
\* grid coordinates of the function calls range over -MaxCoord .. MaxCoord
MaxCoord == 2
\* octave indices of the function calls range over 0 .. MaxOctave
MaxOctave == 2
\* octave indices of the hash calls range over 0 .. MaxHashOctave
MaxHashOctave == 8
\* render: num_cells ranges over -1 .. MaxCells
MaxCells == 2
\* render: resolution ranges over -MaxRes .. MaxRes
MaxRes == 4
\* render: num_octaves ranges over -1 .. MaxNumOctaves
MaxNumOctaves == 2

(* ------------------------------- state -------------------------------- *)
VARIABLES
    _hash_variant,  \* src/src/hash.py: PERLIN_HASH, upper-cased at import
    last,           \* the last function call: its arguments, locals and result
    pc,             \* render: the position in the function
    entry,          \* render: "render" (_render.py) or "_render" (app/render.py)
    opts,           \* render: the options handed in
    loc,            \* render: the locals num_cells, resolution, n_pixels, amp,
                    \*         cum_amp and the loop variables octave, i, j
    image,          \* render: the image, pixel -> value
    err,            \* render: the exception raised, or "none"
    sched,          \* concurrent render: "free" or "barrier" (octave by octave)
    tpc,            \* concurrent render: task -> "todo", "read" or "done"
    tbuf,           \* concurrent render: task -> the region it has read
    overlapped      \* concurrent render: two updates were in flight together

(* --------------------------- machine integers -------------------------- *)
\* Arithmetic is written as functions: a function's argument is evaluated
\* before the function is applied, as Python evaluates a call's arguments.

\* 2^16: a uint32 is hi * Limb + lo; _MAX_UINT32 = Limb * Limb - 1
Limb == 65536

U32 == (0 .. Limb - 1) \X (0 .. Limb - 1)
Byte == 0 .. 255

\* n & _MAX_UINT32 for a Python integer n (two's complement of a negative n)
ToU32[n \in Int] == << (n \div Limb) % Limb, n % Limb >>

\* (a + b) & _MAX_UINT32
U32Add[a \in U32, b \in U32] ==
    << (a[1] + b[1] + ((a[2] + b[2]) \div Limb)) % Limb, (a[2] + b[2]) % Limb >>

\* (a << 6) & _MAX_UINT32
U32Shl6[a \in U32] ==
    << (a[1] * 64 + ((a[2] * 64) \div Limb)) % Limb, (a[2] * 64) % Limb >>

\* a >> 2
U32Shr2[a \in U32] ==
    << a[1] \div 4, (a[2] \div 4) + (a[1] % 4) * (Limb \div 4) >>

\* a ^ b on non-negative integers below 2^16, by halves of the bit string
Xor2(a, b) == 2 * (((a \div 2) + (b \div 2)) % 2) + ((a + b) % 2)
Xor4(a, b) == 4 * Xor2(a \div 4, b \div 4) + Xor2(a % 4, b % 4)
Xor8(a, b) == 16 * Xor4(a \div 16, b \div 16) + Xor4(a % 16, b % 16)
BitXor(a, b) == 256 * Xor8(a \div 256, b \div 256) + Xor8(a % 256, b % 256)

\* a & b on Python integers (two's complement of unbounded width)
RECURSIVE BitAnd(_, _)
BitAnd(a, b) ==
    IF a = 0 \/ b = 0 THEN 0
    ELSE IF a = -1 THEN b
    ELSE IF b = -1 THEN a
    ELSE 2 * BitAnd(a \div 2, b \div 2) + (a % 2) * (b % 2)

\* a ^ b on uint32
U32Xor[a \in U32, b \in U32] == << BitXor(a[1], b[1]), BitXor(a[2], b[2]) >>

\* int.to_bytes(v, length=4, byteorder="little") of a uint32
LeBytes[v \in U32] == << v[2] % 256, v[2] \div 256, v[1] % 256, v[1] \div 256 >>

(* ------------------------- src/src/hash.py ----------------------------- *)
\* hashlib.md5 of the 4 little-endian bytes of n & _MAX_UINT32, reduced by
\* int.from_bytes(digest) & _MAX_UINT32: the digest's values, tabulated
Md5Table ==
    << <<50104, 31182>>, <<36392, 17748>>, <<38550, 47098>>, <<61915, 29769>>,
       <<50405, 29282>>, <<62075, 51877>>, <<946, 59432>>,   <<23410, 15286>>,
       <<33338, 6158>>,  <<25032, 7128>>,  <<61400, 60157>>, <<43323, 43111>>,
       <<47233, 19655>>, <<11716, 7159>>,  <<64256, 24076>>, <<12420, 24921>>,
       <<4737, 44722>>,  <<37350, 52734>>, <<8549, 16779>>,  <<3603, 20480>>,
       <<55359, 29699>>, <<27626, 47745>>, <<43269, 13262>>, <<40660, 41730>>,
       <<4557, 37422>>,  <<36241, 52652>>, <<51172, 36018>>, <<52720, 13105>>,
       <<29681, 27891>>, <<25717, 46569>>, <<29018, 470>>,   <<14132, 35001>>,
       <<1383, 3479>>,   <<64193, 40418>>, <<50251, 26124>>, <<47472, 60884>>,
       <<51233, 18764>>, <<59491, 11092>>, <<54758, 35497>>, <<47036, 32352>>,
       <<51926, 63837>>, <<4044, 16730>>,  <<30794, 29569>>, <<63281, 47590>>,
       <<11561, 57809>> >>

\* the table starts at n = -4
_hash_int(n) == Md5Table[n + 5]

\* the golden-ratio constant 0x9E3779B9 of _hash_combine and of _OFFSET
Golden == << 40503, 31161 >>

_hash_combine(a, b) ==
    U32Xor[a, U32Add[U32Add[U32Add[b, Golden], U32Shl6[a]], U32Shr2[a]]]

_hash_grid_point_md5(x, y, octave) ==
    _hash_combine(_hash_combine(_hash_int(x), _hash_int(y)), _hash_int(octave))

\* one round of FNV-1a: hash ^= char; hash = (hash * 0x01000193) & _MAX_UINT32
\* (0x01000193 = 2^24 + 403, so hash * 2^24 keeps the low byte of hash only)
FnvRound[h \in U32, char \in Byte] ==
    LET lo == Xor8(h[2] % 256, char) + (h[2] \div 256) * 256
    IN  << (h[1] * 403 + ((lo * 403) \div Limb) + (lo % 256) * 256) % Limb,
           (lo * 403) % Limb >>

\* the 32-bit FNV offset basis 0x811C9DC5
FnvBasis == << 33052, 40389 >>

\* hash after the first k bytes of bts
RECURSIVE FnvFold(_, _)
FnvFold(bts, k) ==
    IF k = 0 THEN FnvBasis ELSE FnvRound[FnvFold(bts, k - 1), bts[k]]

\* a hash that leaves the octave out of the bytes
FnvNoOctave(x, y, octave) ==
    FnvFold(LeBytes[U32Add[ToU32[x], Golden]] \o LeBytes[U32Add[ToU32[y], Golden]], 8)

_hash_grid_point_fnv(x, y, octave) ==
    LET x_bts == LeBytes[U32Add[ToU32[x], Golden]]
        y_bts == LeBytes[U32Add[ToU32[y], Golden]]
        o_bts == LeBytes[U32Add[ToU32[octave], Golden]]
    IN  FnvFold(x_bts \o y_bts \o o_bts, 12)

(* ------------------------ exact real arithmetic ------------------------ *)
\* <<a, b, d>> stands for (a + b*sqrt(2)) / d
Q == Int \X Int \X Int

Abs(n) == IF n < 0 THEN -n ELSE n

RECURSIVE GCD(_, _)
GCD(m, n) == IF n = 0 THEN m ELSE GCD(n, m % n)

\* lowest terms, d > 0
QNorm[x \in Q] ==
    LET g == GCD(GCD(Abs(x[1]), Abs(x[2])), x[3])
    IN  << x[1] \div g, x[2] \div g, x[3] \div g >>

QInt(n) == << n, 0, 1 >>
QRat(n, d) == QNorm[<< n, 0, d >>]
QNeg[x \in Q] == << -x[1], -x[2], x[3] >>

QAdd[x \in Q, y \in Q] ==
    LET g  == GCD(x[3], y[3])
        mx == y[3] \div g
        my == x[3] \div g
    IN  QNorm[<< x[1] * mx + y[1] * my, x[2] * mx + y[2] * my, x[3] * mx >>]

QSub[x \in Q, y \in Q] == QAdd[x, QNeg[y]]

QMul[x \in Q, y \in Q] ==
    LET g1 == GCD(GCD(Abs(x[1]), Abs(x[2])), y[3])
        g2 == GCD(GCD(Abs(y[1]), Abs(y[2])), x[3])
        xa == x[1] \div g1
        xb == x[2] \div g1
        ya == y[1] \div g2
        yb == y[2] \div g2
    IN  QNorm[<< xa * ya + 2 * xb * yb, xa * yb + xb * ya,
                 (x[3] \div g2) * (y[3] \div g1) >>]

\* a > b * sqrt(2), for a >= 0 and b > 0, by the continued fraction of sqrt(2)
RECURSIVE GtSqrt2(_, _)
GtSqrt2(a, b) ==
    IF a <= b THEN FALSE
    ELSE IF a >= 2 * b THEN TRUE
    ELSE ~GtSqrt2(2 * b - a, a - b)

\* the sign of a + b*sqrt(2)
QSign[x \in Q] ==
    IF x[1] = 0 /\ x[2] = 0 THEN 0
    ELSE IF x[1] >= 0 /\ x[2] >= 0 THEN 1
    ELSE IF x[1] <= 0 /\ x[2] <= 0 THEN -1
    ELSE IF x[1] > 0 THEN (IF GtSqrt2(x[1], -x[2]) THEN 1 ELSE -1)
    ELSE (IF GtSqrt2(-x[1], x[2]) THEN -1 ELSE 1)

QLe(x, y) == QSign[QSub[x, y]] <= 0
QLt(x, y) == QSign[QSub[x, y]] < 0

\* math.sqrt(2)
Sqrt2 == << 0, 1, 1 >>

(* ----------------- src/src/hash.py: get_gradient_vector ---------------- *)
\* (cos, sin) of k * pi/4
Dir8 ==
    << << <<1, 0, 1>>,  <<0, 0, 1>> >>,  << <<0, 1, 2>>,  <<0, 1, 2>> >>,
       << <<0, 0, 1>>,  <<1, 0, 1>> >>,  << <<0, -1, 2>>, <<0, 1, 2>> >>,
       << <<-1, 0, 1>>, <<0, 0, 1>> >>,  << <<0, -1, 2>>, <<0, -1, 2>> >>,
       << <<0, 0, 1>>,  <<-1, 0, 1>> >>, << <<0, 1, 2>>,  <<0, -1, 2>> >> >>

\* angle = 2 * pi * h / 2^32; (cos(angle), sin(angle)).  cos and sin are
\* evaluated at the angle rounded down to a multiple of pi/4 (the top three
\* bits of h), where they are exact in Q(sqrt 2); the vector has length 1.
UnitVector(h) == Dir8[(h[1] \div 8192) + 1]

HashVariants == {"FNV", "MD5"}

\* the hash that get_gradient_vector selects by _hash_variant
GridPointHash(x, y, octave) ==
    IF _hash_variant = "FNV" THEN _hash_grid_point_fnv(x, y, octave)
    ELSE _hash_grid_point_md5(x, y, octave)

\* get_gradient_vector raises NotImplementedError under any other variant
HashNotImplemented == _hash_variant \notin HashVariants

get_gradient_vector(x, y, octave) == UnitVector(GridPointHash(x, y, octave))

(* --------------------------- src/perlin/_core.py ----------------------- *)
_grid_dot_product(grid_x, grid_y, x, y, octave) ==
    LET grad   == get_gradient_vector(grid_x, grid_y, octave)
        disp_x == QSub[x, QInt(grid_x)]
        disp_y == QSub[y, QInt(grid_y)]
        dot    == QAdd[QMul[grad[1], disp_x], QMul[grad[2], disp_y]]
    IN  QMul[Sqrt2, dot]

\* _interpolate with its end points exchanged
InterpolateSwapped(a0, a1, t) ==
    QAdd[QMul[QMul[QMul[QMul[QSub[a0, a1], t], t], t],
              QAdd[QMul[t, QSub[QMul[QInt(6), t], QInt(15)]], QInt(10)]],
         a1]

\* (a1 - a0) * t * t * t * (t * (6 * t - 15) + 10) + a0
_interpolate(a0, a1, t) ==
    QAdd[QMul[QMul[QMul[QMul[QSub[a1, a0], t], t], t],
              QAdd[QMul[t, QSub[QMul[QInt(6), t], QInt(15)]], QInt(10)]],
         a0]

\* int(x) of a float x: truncation toward zero
PyInt(x) == IF x[1] >= 0 THEN x[1] \div x[3] ELSE -((-x[1]) \div x[3])

\* math.floor(x)
Floor(x) == x[1] \div x[3]

\* the value interpolated in the cell at (grid_x, grid_y)
PerlinAt(grid_x, grid_y, x, y, octave) ==
    LET bottom_left  == _grid_dot_product(grid_x, grid_y, x, y, octave)
        bottom_right == _grid_dot_product(grid_x + 1, grid_y, x, y, octave)
        top_right    == _grid_dot_product(grid_x + 1, grid_y + 1, x, y, octave)
        top_left     == _grid_dot_product(grid_x, grid_y + 1, x, y, octave)
        t_x    == QSub[x, QInt(grid_x)]
        t_y    == QSub[y, QInt(grid_y)]
        bottom == _interpolate(bottom_left, bottom_right, t_x)
        top    == _interpolate(top_left, top_right, t_x)
    IN  _interpolate(bottom, top, t_y)

perlin(x, y, octave) == PerlinAt(PyInt(x), PyInt(y), x, y, octave)

\* np.linspace(0, 1, num=resolution, endpoint=False)[i]
Linspace(resolution, i) == QRat(i, resolution)

perlin_cell(grid_x, grid_y, octave, resolution) ==
    [ij \in (0 .. resolution - 1) \X (0 .. resolution - 1) |->
        LET t_x  == Linspace(resolution, ij[1])
            t_y  == Linspace(resolution, ij[2])
            xs   == QAdd[QInt(grid_x), t_x]
            ys   == QAdd[QInt(grid_y), t_y]
            dot0 == _grid_dot_product(grid_x, grid_y, xs, ys, octave)
            dot1 == _grid_dot_product(grid_x + 1, grid_y, xs, ys, octave)
            dot2 == _grid_dot_product(grid_x + 1, grid_y + 1, xs, ys, octave)
            dot3 == _grid_dot_product(grid_x, grid_y + 1, xs, ys, octave)
            bottom == _interpolate(dot0, dot1, t_x)
            top    == _interpolate(dot3, dot2, t_x)
        IN  _interpolate(bottom, top, t_y)]

(* ------------------------------ src/perlin.py -------------------------- *)
\* int.to_bytes(n), one unsigned byte: OverflowError outside 0 .. 255
ToBytesRaises(n) == n < 0 \/ n > 255

\* hashlib.md5 of the single byte n, int.from_bytes(digest) % _HASH_SIZE:
\* the digest's values, tabulated
Md5ByteTable ==
    << <<20437, 40817>>, <<10689, 57153>>, <<90, 53439>>, <<44110, 57192>>,
       <<7479, 46396>>,  <<59077, 5897>>,  <<51217, 272>>, <<5753, 19805>>,
       <<52000, 58063>> >>

_hash_int_byte(n) ==
    IF n = 254 THEN << 10225, 57518 >>
    ELSE IF n = 255 THEN << 41047, 25237 >>
    ELSE Md5ByteTable[n + 1]

\* a ^= (b + 0x9E3779B9 + (a << 6) % _HASH_SIZE + (a >> 2)) % _HASH_SIZE
_hash_combine_mod(a, b) ==
    U32Xor[a, U32Add[U32Add[U32Add[b, Golden], U32Shl6[a]], U32Shr2[a]]]

\* the local `hash` of _hash_grid_point
_hash_grid_point(x, y) == _hash_combine_mod(_hash_int_byte(x), _hash_int_byte(y))

_hash_grid_point_raises(x, y) == ToBytesRaises(x) \/ ToBytesRaises(y)

_grid_dot_product_xy(grid_x, grid_y, x, y) ==
    LET grad   == UnitVector(_hash_grid_point(grid_x, grid_y))
        disp_x == QSub[x, QInt(grid_x)]
        disp_y == QSub[y, QInt(grid_y)]
        dot    == QAdd[QMul[grad[1], disp_x], QMul[grad[2], disp_y]]
    IN  QMul[Sqrt2, dot]

\* perlin(x, y) of src/perlin.py
perlin_xy(x, y) ==
    LET x0 == PyInt(x)
        y0 == PyInt(y)
        bottom_left  == _grid_dot_product_xy(x0, y0, x, y)
        bottom_right == _grid_dot_product_xy(x0 + 1, y0, x, y)
        top_right    == _grid_dot_product_xy(x0 + 1, y0 + 1, x, y)
        top_left     == _grid_dot_product_xy(x0, y0 + 1, x, y)
        t_x    == QSub[x, QInt(x0)]
        t_y    == QSub[y, QInt(y0)]
        bottom == _interpolate(bottom_left, bottom_right, t_x)
        top    == _interpolate(top_left, top_right, t_x)
    IN  _interpolate(bottom, top, t_y)

perlin_xy_raises(x, y) ==
    \E dx \in 0 .. 1, dy \in 0 .. 1 : _hash_grid_point_raises(PyInt(x) + dx, PyInt(y) + dy)

renderVars ==
    << pc, entry, opts, loc, image, err >>
parVars == << sched, tpc, tbuf, overlapped >>
vars == << _hash_variant, last, renderVars, parVars >>

(* ========================== the function calls ========================= *)
Coords == -MaxCoord .. MaxCoord
\* the sample points: the quarters n / 4 of [-MaxCoord, MaxCoord]
Samples == { QRat(n, 4) : n \in -(MaxCoord * 4) .. MaxCoord * 4 }
Octaves == 0 .. MaxOctave
HashOctaves == 0 .. MaxHashOctave
\* the coordinates handed to the one-byte hash of src/perlin.py
ByteCoords == Coords \cup {254, 255, 256}
\* the resolutions of the perlin_cell calls
CellResolutions == {1, 2, 4}

NoCall == [fn |-> "none"]
\* allocated: np.zeros has run
NoLocals ==
    [allocated |-> FALSE, num_cells |-> 0, resolution |-> 0, n_pixels |-> 0,
     amp |-> QInt(1), cum_amp |-> QInt(0), octave |-> 0, i |-> 0, j |-> 0]
NoOpts == [num_cells |-> 0, resolution |-> 0, num_octaves |-> 0, origin |-> << 0, 0 >>]

\* src/perlin/_core.py: perlin(x, y, octave)
CallPerlin(x, y, octave) ==
    /\ last.fn = "none"
    /\ last' = IF HashNotImplemented
               THEN [fn |-> "perlin", x |-> x, y |-> y, octave |-> octave,
                     err |-> "NotImplementedError"]
               ELSE [fn |-> "perlin", x |-> x, y |-> y, octave |-> octave,
                     err |-> "none",
                     grid_x |-> PyInt(x), grid_y |-> PyInt(y),
                     t_x |-> QSub[x, QInt(PyInt(x))], t_y |-> QSub[y, QInt(PyInt(y))],
                     value |-> perlin(x, y, octave)]
    /\ UNCHANGED << _hash_variant, renderVars, parVars >>

\* src/perlin.py: perlin(x, y)
CallPerlinXY(x, y) ==
    /\ last.fn = "none"
    /\ last' = IF perlin_xy_raises(x, y)
               THEN [fn |-> "perlin_xy", x |-> x, y |-> y, err |-> "OverflowError"]
               ELSE [fn |-> "perlin_xy", x |-> x, y |-> y, err |-> "none",
                     grid_x |-> PyInt(x), grid_y |-> PyInt(y),
                     t_x |-> QSub[x, QInt(PyInt(x))], t_y |-> QSub[y, QInt(PyInt(y))],
                     value |-> perlin_xy(x, y)]
    /\ UNCHANGED << _hash_variant, renderVars, parVars >>

\* src/perlin/_core.py: perlin_cell(grid_x, grid_y, octave, resolution)
CallPerlinCell(grid_x, grid_y, octave, resolution) ==
    /\ last.fn = "none"
    /\ last' = IF HashNotImplemented
               THEN [fn |-> "perlin_cell", grid_x |-> grid_x, grid_y |-> grid_y,
                     octave |-> octave, resolution |-> resolution,
                     err |-> "NotImplementedError"]
               ELSE [fn |-> "perlin_cell", grid_x |-> grid_x, grid_y |-> grid_y,
                     octave |-> octave, resolution |-> resolution, err |-> "none",
                     value |-> perlin_cell(grid_x, grid_y, octave, resolution)]
    /\ UNCHANGED << _hash_variant, renderVars, parVars >>

\* src/src/hash.py: get_gradient_vector(x, y, octave), with its local h
CallGetGradientVector(x, y, octave) ==
    /\ last.fn = "none"
    /\ last' = IF HashNotImplemented
               THEN [fn |-> "get_gradient_vector", x |-> x, y |-> y, octave |-> octave,
                     err |-> "NotImplementedError"]
               ELSE [fn |-> "get_gradient_vector", x |-> x, y |-> y, octave |-> octave,
                     err |-> "none", h |-> GridPointHash(x, y, octave),
                     grad |-> get_gradient_vector(x, y, octave)]
    /\ UNCHANGED << _hash_variant, renderVars, parVars >>

\* src/perlin.py: _hash_grid_point(x, y), with its local hash
CallHashGridPoint(x, y) ==
    /\ last.fn = "none"
    /\ last' = IF _hash_grid_point_raises(x, y)
               THEN [fn |-> "_hash_grid_point", x |-> x, y |-> y, err |-> "OverflowError",
                     h |-> << >>, grad |-> << >>]
               ELSE [fn |-> "_hash_grid_point", x |-> x, y |-> y, err |-> "none",
                     h |-> _hash_grid_point(x, y),
                     grad |-> UnitVector(_hash_grid_point(x, y))]
    /\ UNCHANGED << _hash_variant, renderVars, parVars >>

(* ============================== render ================================= *)
(* src/perlin/_render.py: render(opts), and src/perlin/app/render.py:       *)
(* _render(n_cells, resolution, origin, n_octaves), whose body is the same  *)
(* loop behind an assert in place of the RenderOpts validator.              *)

\* _check_power_of_two without its test v > 0
CheckPowerOfTwoNoSign(v) == BitAnd(v, v - 1) = 0

\* _check_power_of_two: assert v > 0 and v & (v - 1) == 0
_check_power_of_two(v) == v > 0 /\ BitAnd(v, v - 1) = 0

\* app/render.py: assert resolution & (resolution - 1) == 0 and resolution != 0
_render_assert(v) == BitAnd(v, v - 1) = 0 /\ v # 0

\* the origins handed to render
Origins == { << 0, 0 >>, << -1, 1 >> }

RenderArgs ==
    [num_cells : -1 .. MaxCells, resolution : -MaxRes .. MaxRes,
     num_octaves : -1 .. MaxNumOctaves, origin : Origins]

\* x / c for a rational c; c = 0 gives the non-finite <<a, b, 0>> (nan is 0/0)
QDiv(x, c) ==
    IF c[1] = 0 THEN << x[1], x[2], 0 >>
    ELSE QMul[x, << c[3], 0, c[1] >>]

\* np.zeros((n_pixels, n_pixels))
Zeros(n_pixels) == [p \in (0 .. n_pixels - 1) \X (0 .. n_pixels - 1) |-> QInt(0)]

\* the pixels of image[s_i, s_j]: slice(i * resolution, (i + 1) * resolution)
\* on an axis of n_pixels pixels
Slice(k, res, n_pixels) ==
    { p \in 0 .. n_pixels - 1 : k * res <= p /\ p < (k + 1) * res }

\* the slice s_j taken from i
CellRegionRowOnly(ci, cj, res, n_pixels) ==
    Slice(ci, res, n_pixels) \X Slice(ci, res, n_pixels)

CellRegion(ci, cj, res, n_pixels) ==
    Slice(ci, res, n_pixels) \X Slice(cj, res, n_pixels)

\* image[s_i, s_j] + amp * perlin_cell(origin[0] + i, origin[1] + j, octave, resolution)
\* on the region, given the values `base` of the region that were read
AddCell(img, base, o, ci, cj, res, a, n_pixels, origin) ==
    LET cell   == perlin_cell(origin[1] + ci, origin[2] + cj, o, res)
        region == CellRegion(ci, cj, res, n_pixels)
    IN  [p \in DOMAIN img |->
            IF p \in region
            THEN QAdd[base[p], QMul[a, cell[<< p[1] - ci * res, p[2] - cj * res >>]]]
            ELSE img[p]]

\* image = image / cum_amp
Renormalize(img, a, c) == [p \in DOMAIN img |-> QDiv(img[p], c)]

\* RenderOpts(...): pydantic runs the validator of resolution
MakeRenderOpts(args) ==
    /\ pc = "idle"
    /\ entry' = "render"
    /\ opts' = args
    /\ IF _check_power_of_two(args.resolution)
       THEN pc' = "validated" /\ err' = "none"
       ELSE pc' = "raised" /\ err' = "ValidationError"
    /\ UNCHANGED << _hash_variant, last, loc, image, parVars >>

\* app/render.py line 30
AppRenderAssert(args) ==
    /\ pc = "idle"
    /\ entry' = "_render"
    /\ opts' = args
    /\ IF _render_assert(args.resolution)
       THEN pc' = "validated" /\ err' = "none"
       ELSE pc' = "raised" /\ err' = "AssertionError"
    /\ UNCHANGED << _hash_variant, last, loc, image, parVars >>

\* render lines 44-52: np.zeros raises ValueError on a negative dimension
RenderAllocate ==
    /\ pc = "validated"
    /\ LET n_pixels == opts.num_cells * opts.resolution
       IN  IF n_pixels < 0
           THEN pc' = "raised" /\ err' = "ValueError" /\ UNCHANGED << loc, image >>
           ELSE /\ pc' = "octave"
                /\ image' = Zeros(n_pixels)
                /\ loc' = [allocated |-> TRUE, num_cells |-> opts.num_cells,
                           resolution |-> opts.resolution, n_pixels |-> n_pixels,
                           amp |-> QInt(1), cum_amp |-> QInt(0),
                           octave |-> 0, i |-> 0, j |-> 0]
                /\ UNCHANGED err
    /\ UNCHANGED << _hash_variant, last, entry, opts, parVars >>

\* for octave in range(num_octaves): cum_amp += amp
RenderOctave ==
    /\ pc = "octave"
    /\ IF loc.octave < opts.num_octaves
       THEN /\ pc' = "cell"
            /\ loc' = [loc EXCEPT !.cum_amp = QAdd[loc.cum_amp, loc.amp], !.i = 0, !.j = 0]
       ELSE pc' = "normalize" /\ UNCHANGED loc
    /\ UNCHANGED << _hash_variant, last, entry, opts, image, err, parVars >>

\* one iteration of the loops over i and j: image[s_i, s_j] += amp * perlin_cell(...)
RenderCell ==
    /\ pc = "cell"
    /\ loc.i < loc.num_cells
    /\ IF HashNotImplemented
       THEN pc' = "raised" /\ err' = "NotImplementedError" /\ UNCHANGED << loc, image >>
       ELSE /\ image' = AddCell(image, image, loc.octave, loc.i, loc.j, loc.resolution,
                                loc.amp, loc.n_pixels, opts.origin)
            /\ loc' = IF loc.j + 1 < loc.num_cells
                      THEN [loc EXCEPT !.j = loc.j + 1]
                      ELSE [loc EXCEPT !.i = loc.i + 1, !.j = 0]
            /\ UNCHANGED << pc, err >>
    /\ UNCHANGED << _hash_variant, last, entry, opts, parVars >>

\* the end of the octave: num_cells *= 2; resolution //= 2; amp /= 2
RenderOctaveEnd ==
    /\ pc = "cell"
    /\ loc.i >= loc.num_cells
    /\ pc' = "octave"
    /\ loc' = [loc EXCEPT !.num_cells = 2 * loc.num_cells,
                          !.resolution = loc.resolution \div 2,
                          !.amp = QMul[loc.amp, << 1, 0, 2 >>],
                          !.octave = loc.octave + 1]
    /\ UNCHANGED << _hash_variant, last, entry, opts, image, err, parVars >>

\* image = image / cum_amp; return image
RenderReturn ==
    /\ pc = "normalize"
    /\ image' = Renormalize(image, loc.amp, loc.cum_amp)
    /\ pc' = "returned"
    /\ UNCHANGED << _hash_variant, last, entry, opts, loc, err, parVars >>

InitRender ==
    /\ _hash_variant \in {"FNV", "MD5", "SHA1"}
    /\ last = NoCall
    /\ pc = "idle" /\ entry = "none" /\ opts = NoOpts
    /\ loc = NoLocals /\ image = << >> /\ err = "none"
    /\ sched = "none" /\ tpc = << >> /\ tbuf = << >> /\ overlapped = FALSE

NextRender ==
    \/ \E args \in RenderArgs : MakeRenderOpts(args)
    \/ \E args \in RenderArgs : AppRenderAssert(args)
    \/ RenderAllocate
    \/ RenderOctave
    \/ RenderCell
    \/ RenderOctaveEnd
    \/ RenderReturn

SpecRender == InitRender /\ [][NextRender]_vars

InitFn ==
    /\ _hash_variant \in {"FNV", "MD5", "SHA1"}
    /\ last = NoCall
    /\ pc = "idle" /\ entry = "none" /\ opts = NoOpts
    /\ loc = NoLocals /\ image = << >> /\ err = "none"
    /\ sched = "none" /\ tpc = << >> /\ tbuf = << >> /\ overlapped = FALSE

NextFn ==
    \/ \E x \in Samples, y \in Samples, o \in Octaves : CallPerlin(x, y, o)
    \/ \E x \in Samples, y \in Samples : CallPerlinXY(x, y)
    \/ \E grid_x \in Coords, grid_y \in Coords, o \in Octaves, r \in CellResolutions :
            CallPerlinCell(grid_x, grid_y, o, r)
    \/ \E x \in Coords, y \in Coords, o \in HashOctaves : CallGetGradientVector(x, y, o)
    \/ \E x \in ByteCoords, y \in ByteCoords : CallHashGridPoint(x, y)

SpecFn == InitFn /\ [][NextFn]_vars
(* ========================= concurrent render =========================== *)
(* The update of render's loop body, image[s_i, s_j] += amp * perlin_cell,  *)
(* run as one task per (octave, cell): a read of the region, then the add   *)
(* and the write back.  sched = "free" starts the tasks in any order;       *)
(* sched = "barrier" starts the tasks of an octave only once every task of  *)
(* the octaves before it has written.                                       *)

\* a task set has at most MaxTasks tasks
MaxTasks == 5

Pow2(k) == 2 ^ k

\* the values of the loop's locals in the iteration `octave`
OctaveCells(args, octave) == args.num_cells * Pow2(octave)
OctaveResolution(args, octave) == args.resolution \div Pow2(octave)
OctaveAmp(octave) == << 1, 0, Pow2(octave) >>

RECURSIVE CumAmp(_)
\* cum_amp after `n` iterations of the octave loop
CumAmp(n) == IF n <= 0 THEN QInt(0) ELSE QAdd[CumAmp(n - 1), OctaveAmp(n - 1)]

\* one task per iteration of the three nested loops
Tasks(args) ==
    { t \in (0 .. args.num_octaves - 1) \X (0 .. OctaveCells(args, args.num_octaves) - 1)
                                        \X (0 .. OctaveCells(args, args.num_octaves) - 1) :
        t[2] < OctaveCells(args, t[1]) /\ t[3] < OctaveCells(args, t[1]) }

TaskRegion(args, t) ==
    CellRegion(t[2], t[3], OctaveResolution(args, t[1]), args.num_cells * args.resolution)

\* the image after the update of task t, which read the values `base`
TaskUpdate(img, base, args, t) ==
    AddCell(img, base, t[1], t[2], t[3], OctaveResolution(args, t[1]), OctaveAmp(t[1]),
            args.num_cells * args.resolution, args.origin)

\* the order in which the sequential loop runs the tasks
TaskBefore(t, u) ==
    \/ t[1] < u[1]
    \/ t[1] = u[1] /\ t[2] < u[2]
    \/ t[1] = u[1] /\ t[2] = u[2] /\ t[3] < u[3]

RECURSIVE SeqUpdates(_, _, _)
\* the image after the sequential loop has run the tasks `todo`
SeqUpdates(img, args, todo) ==
    IF todo = {} THEN img
    ELSE LET t == CHOOSE u \in todo : \A v \in todo \ {u} : TaskBefore(u, v)
         IN  SeqUpdates(TaskUpdate(img, img, args, t), args, todo \ {t})

\* the image render returns
SeqRender(args) ==
    Renormalize(SeqUpdates(Zeros(args.num_cells * args.resolution), args, Tasks(args)),
                OctaveAmp(args.num_octaves), CumAmp(args.num_octaves))

ParArgs ==
    { a \in RenderArgs :
        /\ _check_power_of_two(a.resolution) /\ a.resolution <= 2
        /\ a.num_cells >= 1 /\ a.num_octaves >= 1
        /\ a.origin = << 0, 0 >>
        /\ a.num_cells * a.num_cells * (Pow2(2 * a.num_octaves) - 1) <= 3 * MaxTasks }

\* render's lines 44-52, then one task per loop iteration
ParStart(args, s) ==
    /\ pc = "idle"
    /\ ~HashNotImplemented
    /\ entry' = "render"
    /\ opts' = args
    /\ sched' = s
    /\ image' = Zeros(args.num_cells * args.resolution)
    /\ loc' = [NoLocals EXCEPT !.allocated = TRUE,
                               !.num_cells = args.num_cells,
                               !.resolution = args.resolution,
                               !.n_pixels = args.num_cells * args.resolution]
    /\ tpc' = [t \in Tasks(args) |-> "todo"]
    /\ tbuf' = [t \in Tasks(args) |-> << >>]
    /\ pc' = "tasks"
    /\ UNCHANGED << _hash_variant, last, err, overlapped >>

\* the read of image[s_i, s_j]
ParRead(t) ==
    /\ pc = "tasks"
    /\ tpc[t] = "todo"
    /\ sched = "barrier" => \A u \in DOMAIN tpc : u[1] < t[1] => tpc[u] = "done"
    /\ tpc' = [tpc EXCEPT ![t] = "read"]
    /\ tbuf' = [tbuf EXCEPT ![t] = [p \in TaskRegion(opts, t) |-> image[p]]]
    /\ overlapped' = (overlapped \/ \E u \in DOMAIN tpc : tpc[u] = "read")
    /\ UNCHANGED << _hash_variant, last, renderVars, sched >>

\* the add and the write back of image[s_i, s_j]
ParWrite(t) ==
    /\ pc = "tasks"
    /\ tpc[t] = "read"
    /\ image' = TaskUpdate(image, tbuf[t], opts, t)
    /\ tpc' = [tpc EXCEPT ![t] = "done"]
    /\ UNCHANGED << _hash_variant, last, pc, entry, opts, loc, err, sched, tbuf, overlapped >>

\* every task has written: image = image / cum_amp; return image
ParReturn ==
    /\ pc = "tasks"
    /\ \A t \in DOMAIN tpc : tpc[t] = "done"
    /\ image' = Renormalize(image, OctaveAmp(opts.num_octaves), CumAmp(opts.num_octaves))
    /\ loc' = [loc EXCEPT !.cum_amp = CumAmp(opts.num_octaves),
                          !.amp = OctaveAmp(opts.num_octaves),
                          !.octave = opts.num_octaves]
    /\ pc' = "returned"
    /\ UNCHANGED << _hash_variant, last, entry, opts, err, parVars >>

InitPar ==
    /\ _hash_variant \in {"FNV", "MD5"}
    /\ last = NoCall
    /\ pc = "idle" /\ entry = "none" /\ opts = NoOpts
    /\ loc = NoLocals /\ image = << >> /\ err = "none"
    /\ sched = "none" /\ tpc = << >> /\ tbuf = << >> /\ overlapped = FALSE

NextPar ==
    \/ \E args \in ParArgs, s \in {"free", "barrier"} : ParStart(args, s)
    \/ \E t \in DOMAIN tpc : ParRead(t)
    \/ \E t \in DOMAIN tpc : ParWrite(t)
    \/ ParReturn

SpecPar == InitPar /\ [][NextPar]_vars

(* ================================ claims =============================== *)
Zero == QInt(0)
One == QInt(1)
InUnitInterval(t) == QLe(Zero, t) /\ QLt(t, One)
PerlinCalls == {"perlin", "perlin_xy"}
InRange(v) == QLe(QInt(-1), v) /\ QLe(v, One)

\* C1: perlin(x, y, octave) takes the cell origin x0 = floor(x), y0 = floor(y),
\* also for negative non-integer coordinates, so that the interpolation
\* weights t_x = x - x0 and t_y = y - y0 both lie in [0, 1).
C1_FloorCellOrigin ==
    (last.fn \in PerlinCalls /\ last.err = "none") =>
        /\ last.grid_x = Floor(last.x)
        /\ last.grid_y = Floor(last.y)
        /\ InUnitInterval(last.t_x)
        /\ InUnitInterval(last.t_y)

\* C2: every element [i][j] of perlin_cell(grid_x, grid_y, octave, resolution)
\* equals perlin(grid_x + i/resolution, grid_y + j/resolution, octave), also
\* for cells with negative coordinates, in exact arithmetic over the same
\* gradient vectors.
C2_CellEqualsScalar ==
    (last.fn = "perlin_cell" /\ last.err = "none") =>
        \A ij \in DOMAIN last.value :
            last.value[ij] =
                perlin(QAdd[QInt(last.grid_x), QRat(ij[1], last.resolution)],
                       QAdd[QInt(last.grid_y), QRat(ij[2], last.resolution)],
                       last.octave)

\* C3: the multi-octave noise value, the sum over the octaves of amplitude
\* times single-octave noise divided by the cumulative amplitude, lies in
\* [-1, 1] for every real (x, y) and every octave count >= 1.  With one
\* octave the value is (1.0 * perlin(x, y, 0)) / 1.0.
C3_CompositeRange ==
    (last.fn = "perlin" /\ last.err = "none" /\ last.octave = 0) =>
        InRange(QDiv(QMul[QInt(1), last.value], QInt(1)))

\* every element of the array render returns for num_octaves >= 1 lies in [-1, 1]
RenderRange ==
    (pc = "returned" /\ opts.num_octaves >= 1) =>
        \A p \in DOMAIN image : InRange(image[p])

\* C4: at every integer grid point (x0, y0), positive, zero or negative, and
\* every octave, perlin(x0, y0, octave) is exactly 0.
C4_LatticeZero ==
    (last.fn = "perlin" /\ last.err = "none" /\ last.x[3] = 1 /\ last.y[3] = 1) =>
        last.value = Zero

\* perlin was called at the grid point (-2, 1) and returned 0
C4_Witness ==
    /\ last.fn = "perlin" /\ last.err = "none"
    /\ last.x = QInt(-2) /\ last.y = QInt(1) /\ last.octave = 1
    /\ last.value = Zero

\* C5: every grid-point hash of the repository accepts every integer
\* coordinate, negative ones and ones above 255 included, and returns
\* without error a value in [0, 2^32).
C5_HashesTotal ==
    /\ last.fn = "_hash_grid_point" => (last.err = "none" /\ last.h \in U32)
    /\ (last.fn = "get_gradient_vector" /\ ~HashNotImplemented) =>
            (last.err = "none" /\ last.h \in U32)

C7_PowerOfTwoRejected ==
    (pc # "idle" /\ opts.resolution \notin { Pow2(k) : k \in 0 .. MaxRes }) =>
        /\ pc = "raised"
        /\ err \in {"ValidationError", "AssertionError"}
        /\ ~loc.allocated /\ image = << >>

\* RenderOpts was built with resolution 0 and the validator raised
C7_Witness ==
    /\ entry = "render" /\ opts.resolution = 0
    /\ pc = "raised" /\ err = "ValidationError" /\ ~loc.allocated

\* C8: render never returns an image for options with a negative octave
\* count or a negative cell count.
C8_NegativeCountsRejected ==
    (opts.num_octaves < 0 \/ opts.num_cells < 0) => pc # "returned"

\* C9: under a hash variant that is neither FNV nor MD5 render never returns
\* an image, whatever num_cells and num_octaves are, 0 included.
C9_UnknownVariantRejected ==
    HashNotImplemented => pc # "returned"

ScaledCoord(o, p, res, k) == QMul[QAdd[QInt(o), QRat(p, res)], QInt(Pow2(k))]

RECURSIVE ScaledSum(_, _, _)
\* the sum over the octaves k < n of 2^-k times the noise of octave k at the
\* scaled point of pixel p, interpolated in the cell floor of that point
ScaledSum(args, p, n) ==
    IF n <= 0 THEN QInt(0)
    ELSE LET k == n - 1
             x == ScaledCoord(args.origin[1], p[1], args.resolution, k)
             y == ScaledCoord(args.origin[2], p[2], args.resolution, k)
         IN  QAdd[ScaledSum(args, p, k),
                  QMul[OctaveAmp(k), PerlinAt(Floor(x), Floor(y), x, y, k)]]

\* render ran every octave at a resolution >= 1
FullResolution == OctaveResolution(opts, opts.num_octaves - 1) >= 1

\* C11: for every origin, every pixel p of the image render returns and every
\* octave k < num_octaves, the noise added to p at octave k is that of the
\* cell floor((origin + p/resolution) * 2^k), at that point, with amplitude
\* 2^-k: the image is the sum of these divided by the cumulative amplitude.
C11_ScaledCellIndex ==
    (pc = "returned" /\ opts.num_octaves >= 1 /\ FullResolution) =>
        \A p \in DOMAIN image :
            image[p] = QDiv(ScaledSum(opts, p, opts.num_octaves),
                            CumAmp(opts.num_octaves))

\* the statement of C11 at the origin (0, 0)
ScaledCellIndexAtZero ==
    opts.origin = << 0, 0 >> => C11_ScaledCellIndex

\* C12: for every power-of-two resolution, num_cells >= 1 and
\* num_octaves >= 1, when an octave iteration has started (its amplitude is
\* counted in cum_amp) the locals satisfy resolution >= 1 and
\* num_cells * resolution = n_pixels, and the slices of the octave's cells
\* tile the image: every pixel lies in the region of exactly one cell.
C12_OctaveTilesImage ==
    (pc = "cell" /\ opts.num_cells >= 1) =>
        /\ loc.resolution >= 1
        /\ loc.num_cells * loc.resolution = loc.n_pixels
        /\ \A p \in DOMAIN image :
              Cardinality({ c \in (0 .. loc.num_cells - 1) \X (0 .. loc.num_cells - 1) :
                  p \in CellRegion(c[1], c[2], loc.resolution, loc.n_pixels) }) = 1

\* the statement of C12 for the octaves k with 2^k <= resolution
OctaveTilesImageWhileIntegral ==
    Pow2(loc.octave) <= opts.resolution => C12_OctaveTilesImage
====
